---- MODULE Spec2Model ----
(***************************************************************************)
(* The core of rust-core (src/rust-core/src): the backtest engine of       *)
(* backtest.rs and data.rs (the Portfolio with its OCO exits, the z-score  *)
(* signal generator, the run_backtest loop and the windowed orchestrator)  *)
(* and the rating engine of glicko.rs (calculate_ratings, the hybrid score *)
(* and the volatility solve).                                              *)
(*                                                                         *)
(* f64 values are modelled as exact rationals <<n, d>> (d > 0, lowest      *)
(* terms); a square root is never evaluated: a standard deviation is kept  *)
(* as its square and a z-score as its sign and its square.  Ratings, and   *)
(* so prices, are positive: no division by zero, no NaN, no rounding.      *)
(***************************************************************************)
EXTENDS Integers, Sequences, FiniteSets, TLC

VARIABLES config, ratings, signals, price_data, signal_idx, price_idx,
          portfolio, pc, result,
          last,   \* the step just taken (history)
          ticks,  \* the ticks processed so far (history)
          klines, kline_idx, players,      \* calculate_ratings
          score_call, hybrid_score,        \* HybridScore::calculate
          klines_in,                       \* the klines as passed (history)
          solver,                          \* find_new_volatility
          windowed                         \* run_windowed_backtest

\* the state of the rating engine, of the volatility solve and of the
\* orchestrator
engine_vars == <<klines, kline_idx, players, score_call, hybrid_score,
                 klines_in, solver, windowed>>

vars == <<config, ratings, signals, price_data, signal_idx, price_idx,
          portfolio, pc, result, last, ticks,
          klines, kline_idx, players, score_call, hybrid_score, klines_in,
          solver, windowed>>

(***************************************************************************)
(* f64 arithmetic, as exact rational arithmetic.                           *)
(***************************************************************************)
RECURSIVE GCD(_, _)
GCD(a, b) == IF b = 0 THEN a ELSE GCD(b, a % b)

Abs(x) == IF x < 0 THEN -x ELSE x

\* the rational n/d (d # 0) in lowest terms with a positive denominator
F(n, d) ==
    LET g == GCD(Abs(n), Abs(d))
        s == IF d < 0 THEN -1 ELSE 1
    IN  <<s * (n \div g), s * (d \div g)>>

fadd(x, y) == F(x[1] * y[2] + y[1] * x[2], x[2] * y[2])
fsub(x, y) == F(x[1] * y[2] - y[1] * x[2], x[2] * y[2])
fmul(x, y) ==
    LET a == F(x[1], y[2])
        b == F(y[1], x[2])
    IN  F(a[1] * b[1], a[2] * b[2])
fdiv(x, y) == fmul(x, F(y[2], y[1]))
flt(x, y) == x[1] * y[2] < y[1] * x[2]
fle(x, y) == x[1] * y[2] <= y[1] * x[2]
fgt(x, y) == flt(y, x)
fge(x, y) == fle(y, x)
fneg(x) == <<-x[1], x[2]>>
Zero == F(0, 1)

\* Option<T>: None is the empty sequence, Some(x) the sequence of x alone
None == <<>>
Some(x) == <<x>>

(***************************************************************************)
(* Portfolio (backtest.rs 27-159).  positions is the HashMap: a function   *)
(* whose domain is the set of symbols that hold a position.                *)
(***************************************************************************)
InitialCash == 10000

Portfolio_new(initial_cash) ==
    [cash         |-> initial_cash,
     positions    |-> <<>>,
     equity_curve |-> << <<0, initial_cash>> >>,
     orders       |-> <<>>]

contains_key(positions, symbol) == symbol \in DOMAIN positions

insert(positions, symbol, position) ==
    [s \in (DOMAIN positions) \cup {symbol} |->
        IF s = symbol THEN position ELSE positions[s]]

remove(positions, symbol) ==
    [s \in (DOMAIN positions) \ {symbol} |-> positions[s]]

\* open_position with the early return on an existing position left out
open_position_no_guard(p, symbol, price, timestamp, cfg, allocation_percent) ==
    LET position_value == fmul(p.cash, allocation_percent)
        quantity == fdiv(position_value, price)
        cost == fmul(quantity, price)
    IN  [p EXCEPT
           !.cash = fsub(p.cash, cost),
           !.positions = insert(p.positions, symbol,
              [symbol |-> symbol, quantity |-> quantity, entry_price |-> price,
               entry_time |-> timestamp,
               stop_loss_price |-> fmul(price,
                  fsub(F(1, 1), fdiv(cfg.stop_loss_percent, F(100, 1)))),
               take_profit_price |-> fmul(price,
                  fadd(F(1, 1), fdiv(cfg.profit_percent, F(100, 1))))]),
           !.orders = Append(p.orders,
              [symbol |-> symbol, side |-> "BUY", quantity |-> quantity,
               price |-> price, timestamp |-> timestamp, reason |-> "ENTRY",
               profit_loss |-> None, profit_loss_percent |-> None])]

\* open_position with the quantity taken from the whole cash
open_position_all_cash(p, symbol, price, timestamp, cfg, allocation_percent) ==
    IF contains_key(p.positions, symbol) THEN p
    ELSE open_position_no_guard(p, symbol, price, timestamp, cfg, F(1, 1))

open_position(p, symbol, price, timestamp, cfg, allocation_percent) ==
    IF contains_key(p.positions, symbol) THEN p
    ELSE LET position_value == fmul(p.cash, allocation_percent)
             quantity == fdiv(position_value, price)
             take_profit_price ==
                 fmul(price, fadd(F(1, 1), fdiv(cfg.profit_percent, F(100, 1))))
             stop_loss_price ==
                 fmul(price, fsub(F(1, 1), fdiv(cfg.stop_loss_percent, F(100, 1))))
             position ==
                 [symbol |-> symbol, quantity |-> quantity, entry_price |-> price,
                  entry_time |-> timestamp, stop_loss_price |-> stop_loss_price,
                  take_profit_price |-> take_profit_price]
             order ==
                 [symbol |-> symbol, side |-> "BUY", quantity |-> quantity,
                  price |-> price, timestamp |-> timestamp, reason |-> "ENTRY",
                  profit_loss |-> None, profit_loss_percent |-> None]
         IN  IF fgt(fmul(quantity, price), p.cash) THEN p
             ELSE [p EXCEPT !.cash = fsub(p.cash, fmul(quantity, price)),
                            !.positions = insert(p.positions, symbol, position),
                            !.orders = Append(p.orders, order)]

close_position(p, symbol, price, timestamp, reason) ==
    IF contains_key(p.positions, symbol)
    THEN LET position == p.positions[symbol]
             proceeds == fmul(position.quantity, price)
             profit_loss ==
                 fsub(proceeds, fmul(position.quantity, position.entry_price))
             profit_loss_percent ==
                 fmul(fdiv(fsub(price, position.entry_price), position.entry_price),
                      F(100, 1))
             order ==
                 [symbol |-> symbol, side |-> "SELL",
                  quantity |-> position.quantity, price |-> price,
                  timestamp |-> timestamp, reason |-> reason,
                  profit_loss |-> Some(profit_loss),
                  profit_loss_percent |-> Some(profit_loss_percent)]
         IN  [p EXCEPT !.cash = fadd(p.cash, proceeds),
                       !.positions = remove(p.positions, symbol),
                       !.orders = Append(p.orders, order)]
    ELSE p

RECURSIVE SumPositions(_, _, _)
SumPositions(positions, current_prices, syms) ==
    IF syms = {} THEN Zero
    ELSE LET s == CHOOSE x \in syms : TRUE
             rest == SumPositions(positions, current_prices, syms \ {s})
         IN  IF s \in DOMAIN current_prices
             THEN fadd(rest, fmul(positions[s].quantity, current_prices[s]))
             ELSE rest

get_portfolio_value(p, current_prices) ==
    fadd(p.cash, SumPositions(p.positions, current_prices, DOMAIN p.positions))

\* update_equity_curve with the open positions left out of the value
update_equity_curve_cash_only(p, timestamp, current_prices) ==
    [p EXCEPT !.equity_curve = Append(p.equity_curve, <<timestamp, p.cash>>)]

update_equity_curve(p, timestamp, current_prices) ==
    [p EXCEPT !.equity_curve =
        Append(p.equity_curve, <<timestamp, get_portfolio_value(p, current_prices)>>)]

(***************************************************************************)
(* MovingStats::calculate (data.rs 70-101).  std_dev is kept as its square *)
(* (the population variance); z_score = sgn * sqrt(sq).                    *)
(***************************************************************************)
RECURSIVE SumSeq(_)
SumSeq(values) ==
    IF values = <<>> THEN Zero ELSE fadd(Head(values), SumSeq(Tail(values)))

Sign(x) == IF x[1] > 0 THEN 1 ELSE IF x[1] < 0 THEN -1 ELSE 0

ZScoreZero == [sgn |-> 0, sq |-> Zero]

\* the z-score computed against the window with the current value in it
MovingStats_calculate_incl(values, current_value) ==
    LET all == Append(values, current_value)
        mean == fdiv(SumSeq(all), F(Len(all), 1))
        variance == fdiv(SumSeq([i \in 1..Len(all) |->
                       fmul(fsub(all[i], mean), fsub(all[i], mean))]),
                         F(Len(all), 1))
        d == fsub(current_value, mean)
    IN  [mean |-> mean, std_dev_sq |-> variance,
         z_score |-> IF fgt(variance, Zero)
                     THEN [sgn |-> Sign(d), sq |-> fdiv(fmul(d, d), variance)]
                     ELSE ZScoreZero]

MovingStats_calculate(values, current_value) ==
    IF values = <<>>
    THEN [mean |-> current_value, std_dev_sq |-> Zero, z_score |-> ZScoreZero]
    ELSE LET mean == fdiv(SumSeq(values), F(Len(values), 1))
             variance == fdiv(SumSeq([i \in 1..Len(values) |->
                            fmul(fsub(values[i], mean), fsub(values[i], mean))]),
                              F(Len(values), 1))
             d == fsub(current_value, mean)
         IN  [mean |-> mean, std_dev_sq |-> variance,
              z_score |-> IF fgt(variance, Zero)
                          THEN [sgn |-> Sign(d), sq |-> fdiv(fmul(d, d), variance)]
                          ELSE ZScoreZero]

\* z > t and z < t for a z-score z = sgn * sqrt(sq) and a rational t
z_gt(z, t) ==
    CASE z.sgn > 0 -> t[1] < 0 \/ fgt(z.sq, fmul(t, t))
      [] z.sgn = 0 -> t[1] < 0
      [] OTHER     -> t[1] < 0 /\ flt(z.sq, fmul(t, t))

z_lt(z, t) == z_gt([z EXCEPT !.sgn = -z.sgn], fneg(t))

(***************************************************************************)
(* calculate_z_score_signals (backtest.rs 182-235).  Histories, signals    *)
(* and prices are tuples whose first component is the timestamp.           *)
(***************************************************************************)
\* x put behind every element of the sorted s whose key is not larger
RECURSIVE InsertByKey(_, _)
InsertByKey(s, x) ==
    IF s = <<>> THEN <<x>>
    ELSE IF s[Len(s)][1] <= x[1] THEN Append(s, x)
    ELSE Append(InsertByKey(SubSeq(s, 1, Len(s) - 1), x), s[Len(s)])

\* Vec::sort_by_key on the timestamp: a stable sort
RECURSIVE sort_by_key(_)
sort_by_key(s) ==
    IF s = <<>> THEN <<>>
    ELSE InsertByKey(sort_by_key(SubSeq(s, 1, Len(s) - 1)), s[Len(s)])

RECURSIVE GroupBySymbol(_, _)
GroupBySymbol(rs, symbol) ==
    IF rs = <<>> THEN <<>>
    ELSE LET rest == GroupBySymbol(SubSeq(rs, 1, Len(rs) - 1), symbol)
             r == rs[Len(rs)]
         IN  IF r.symbol = symbol THEN Append(rest, <<r.timestamp, r.rating>>)
             ELSE rest

SymbolsOf(rs) == {rs[i].symbol : i \in 1..Len(rs)}

classify(z_score, threshold) ==
    IF z_gt(z_score, threshold) THEN "BUY"
    ELSE IF z_lt(z_score, fneg(threshold)) THEN "SELL"
    ELSE "HOLD"

\* the signal of the snapshot at 0-based index window_end of a sorted history
signal_at(rating_history, window_end, moving_averages_period, threshold) ==
    LET current_timestamp == rating_history[window_end + 1][1]
        current_rating == rating_history[window_end + 1][2]
        window_ratings ==
            [i \in 1..moving_averages_period |->
                rating_history[window_end - moving_averages_period + i][2]]
        stats == MovingStats_calculate(window_ratings, current_rating)
    IN  <<current_timestamp, stats.z_score, classify(stats.z_score, threshold)>>

\* symbol_signals_of with the sort of the history left out
symbol_signals_of_unsorted(history, moving_averages_period, threshold) ==
    LET n == Len(history) - moving_averages_period
    IN  IF n <= 0 THEN <<>>
        ELSE [k \in 1..n |->
                signal_at(history, moving_averages_period + k - 1,
                          moving_averages_period, threshold)]

symbol_signals_of(history, moving_averages_period, threshold) ==
    LET rating_history == sort_by_key(history)
        n == Len(rating_history) - moving_averages_period
    IN  IF n <= 0 THEN <<>>
        ELSE [k \in 1..n |->
                signal_at(rating_history, moving_averages_period + k - 1,
                          moving_averages_period, threshold)]

calculate_z_score_signals(rs, moving_averages_period, threshold) ==
    [symbol \in SymbolsOf(rs) |->
        symbol_signals_of(GroupBySymbol(rs, symbol),
                          moving_averages_period, threshold)]

(***************************************************************************)
(* run_backtest (backtest.rs 445-580)                                      *)
(***************************************************************************)
\* format!("{}USDT", config.base_asset) for the base asset BTC
TradedSymbol == "BTCUSDT"

\* price_data: the synthesized prices of the traded symbol, sorted by time
RECURSIVE SimulatedPrices(_, _)
SimulatedPrices(rs, symbol) ==
    IF rs = <<>> THEN <<>>
    ELSE LET rest == SimulatedPrices(SubSeq(rs, 1, Len(rs) - 1), symbol)
             rating == rs[Len(rs)]
             simulated_price ==
                 fmul(F(100, 1), fdiv(rating.rating, F(1500, 1)))
         IN  IF rating.symbol = symbol
             THEN Append(rest, <<rating.timestamp, simulated_price>>)
             ELSE rest

build_price_data(rs, symbol) ==
    IF symbol \in SymbolsOf(rs)
    THEN (symbol :> sort_by_key(SimulatedPrices(rs, symbol)))
    ELSE <<>>

apply_signal(p, signal, symbol, price, signal_time, cfg) ==
    CASE signal = "BUY"  ->
             open_position(p, symbol, price, signal_time, cfg, F(95, 100))
      [] signal = "SELL" ->
             close_position(p, symbol, price, signal_time, "EXIT_ZSCORE")
      [] OTHER -> p

\* positions_to_close with every position taken as having hit a level
positions_to_close_every(p, price) == DOMAIN p.positions

\* positions_to_close with the take-profit level forgotten
positions_to_close_stop_only(p, price) ==
    {sym \in DOMAIN p.positions :
        fle(price, p.positions[sym].stop_loss_price)}

\* the symbols whose position has hit one of its two exit levels
positions_to_close(p, price) ==
    {sym \in DOMAIN p.positions :
        \/ fle(price, p.positions[sym].stop_loss_price)
        \/ fge(price, p.positions[sym].take_profit_price)}

\* close_all with the take-profit level tested first
RECURSIVE close_all_profit_first(_, _, _, _)
close_all_profit_first(p, syms, price, signal_time) ==
    IF syms = {} THEN p
    ELSE LET pos_symbol == CHOOSE x \in syms : TRUE
             closed ==
                 IF fge(price, p.positions[pos_symbol].take_profit_price)
                 THEN close_position(p, pos_symbol, price, signal_time, "EXIT_PROFIT")
                 ELSE close_position(p, pos_symbol, price, signal_time, "EXIT_STOP")
         IN  close_all_profit_first(closed, syms \ {pos_symbol}, price, signal_time)

RECURSIVE close_all(_, _, _, _)
close_all(p, syms, price, signal_time) ==
    IF syms = {} THEN p
    ELSE LET pos_symbol == CHOOSE x \in syms : TRUE
             closed ==
                 IF fle(price, p.positions[pos_symbol].stop_loss_price)
                 THEN close_position(p, pos_symbol, price, signal_time, "EXIT_STOP")
                 ELSE close_position(p, pos_symbol, price, signal_time, "EXIT_PROFIT")
         IN  close_all(closed, syms \ {pos_symbol}, price, signal_time)

oco_check(p, price, signal_time) ==
    close_all(p, positions_to_close(p, price), price, signal_time)

\* process_tick with the OCO check run before the signal
process_tick_oco_first(p, signal, symbol, price, signal_time, cfg) ==
    LET current_prices == (symbol :> price)
        p1 == oco_check(p, price, signal_time)
        p2 == apply_signal(p1, signal, symbol, price, signal_time, cfg)
    IN  update_equity_curve(p2, signal_time, current_prices)

process_tick(p, signal, symbol, price, signal_time, cfg) ==
    LET current_prices == (symbol :> price)
        p1 == apply_signal(p, signal, symbol, price, signal_time, cfg)
        p2 == oco_check(p1, price, signal_time)
    IN  update_equity_curve(p2, signal_time, current_prices)

HasSeries == TradedSymbol \in DOMAIN signals /\ TradedSymbol \in DOMAIN price_data
symbol_signals == signals[TradedSymbol]
symbol_prices == price_data[TradedSymbol]

LoopCondition ==
    /\ HasSeries
    /\ signal_idx < Len(symbol_signals)
    /\ price_idx < Len(symbol_prices)

\* the rating engine, the volatility solve and the orchestrator are not
\* running
EngineIdle ==
    /\ klines = <<>>
    /\ klines_in = <<>>
    /\ kline_idx = 0
    /\ players = <<>>
    /\ score_call = None
    /\ hybrid_score = None
    /\ solver = [pc |-> "idle"]
    /\ windowed = [pc |-> "idle"]

\* what the step just taken did: its inputs and the portfolio before it
\* (before) and between the signal's execution and the OCO check (mid)
NoStep == [kind |-> "none", signal |-> "", symbol |-> "", price |-> Zero,
           time |-> 0, alloc |-> Zero, sidx |-> 0, pidx |-> 0,
           before |-> Portfolio_new(F(InitialCash, 1)),
           mid |-> Portfolio_new(F(InitialCash, 1))]

Prepare ==
    /\ pc = "start"
    /\ signals' = calculate_z_score_signals(ratings, config.moving_averages,
                                            config.z_score_threshold)
    /\ price_data' = build_price_data(ratings, TradedSymbol)
    /\ pc' = "loop"
    /\ last' = [NoStep EXCEPT !.kind = "prepare"]
    /\ UNCHANGED <<config, ratings, signal_idx, price_idx, portfolio, result, ticks>>
    /\ UNCHANGED engine_vars

\* the step of Align with both sides moved on
AlignBoth ==
    /\ pc = "loop"
    /\ LoopCondition
    /\ symbol_signals[signal_idx + 1][1] # symbol_prices[price_idx + 1][1]
    /\ signal_idx' = signal_idx + 1
    /\ price_idx' = price_idx + 1
    /\ last' = [NoStep EXCEPT !.kind = "skip", !.sidx = signal_idx,
                              !.pidx = price_idx, !.before = portfolio,
                              !.mid = portfolio]
    /\ UNCHANGED <<config, ratings, signals, price_data, portfolio, pc, result, ticks>>
    /\ UNCHANGED engine_vars

\* the timestamps differ: the side with the earlier one moves on
Align ==
    /\ pc = "loop"
    /\ LoopCondition
    /\ LET signal_time == symbol_signals[signal_idx + 1][1]
           price_time == symbol_prices[price_idx + 1][1]
       IN  /\ signal_time # price_time
           /\ IF signal_time < price_time
              THEN signal_idx' = signal_idx + 1 /\ price_idx' = price_idx
              ELSE price_idx' = price_idx + 1 /\ signal_idx' = signal_idx
    /\ last' = [NoStep EXCEPT !.kind = "skip", !.sidx = signal_idx,
                              !.pidx = price_idx, !.before = portfolio,
                              !.mid = portfolio]
    /\ UNCHANGED <<config, ratings, signals, price_data, portfolio, pc, result, ticks>>
    /\ UNCHANGED engine_vars

ProcessTick ==
    /\ pc = "loop"
    /\ LoopCondition
    /\ LET signal_time == symbol_signals[signal_idx + 1][1]
           signal == symbol_signals[signal_idx + 1][3]
           price_time == symbol_prices[price_idx + 1][1]
           price == symbol_prices[price_idx + 1][2]
       IN  /\ signal_time = price_time
           /\ portfolio' = process_tick(portfolio, signal, TradedSymbol, price,
                                        signal_time, config)
           /\ last' = [NoStep EXCEPT
                         !.kind = "tick", !.signal = signal,
                         !.symbol = TradedSymbol, !.price = price,
                         !.time = signal_time, !.alloc = F(95, 100),
                         !.sidx = signal_idx, !.pidx = price_idx,
                         !.before = portfolio,
                         !.mid = apply_signal(portfolio, signal, TradedSymbol,
                                              price, signal_time, config)]
    /\ signal_idx' = signal_idx + 1
    /\ price_idx' = price_idx + 1
    /\ ticks' = Append(ticks, [sidx |-> signal_idx, pidx |-> price_idx,
                           time |-> symbol_signals[signal_idx + 1][1]])
    /\ UNCHANGED <<config, ratings, signals, price_data, pc, result>>
    /\ UNCHANGED engine_vars

Finish ==
    /\ pc = "loop"
    /\ ~LoopCondition
    /\ pc' = "done"
    /\ result' = [ok |-> TRUE, orders |-> portfolio.orders]
    /\ last' = [NoStep EXCEPT !.kind = "finish", !.sidx = signal_idx,
                              !.pidx = price_idx, !.before = portfolio,
                              !.mid = portfolio]
    /\ UNCHANGED <<config, ratings, signals, price_data, signal_idx, price_idx,
                   portfolio, ticks>>
    /\ UNCHANGED engine_vars

\* calculate_performance_metrics, the trade durations (backtest.rs 363-376):
\* open_positions maps a symbol to the time of its last BUY, and every SELL
\* of a symbol found there gives a duration in hours
MsPerHour == 1000 * 60 * 60

RECURSIVE trade_durations_from(_, _, _, _)
trade_durations_from(orders, i, open_positions, trade_durations) ==
    IF i > Len(orders) THEN trade_durations
    ELSE LET order == orders[i]
         IN  IF order.side = "BUY"
             THEN trade_durations_from(
                      orders, i + 1,
                      insert(open_positions, order.symbol, order.timestamp),
                      trade_durations)
             ELSE IF order.side = "SELL"
                     /\ contains_key(open_positions, order.symbol)
                  THEN trade_durations_from(
                           orders, i + 1, remove(open_positions, order.symbol),
                           Append(trade_durations,
                                  F(order.timestamp - open_positions[order.symbol],
                                    MsPerHour)))
                  ELSE trade_durations_from(orders, i + 1, open_positions,
                                            trade_durations)

trade_durations_of(orders) == trade_durations_from(orders, 1, <<>>, <<>>)

(***************************************************************************)
(* The inputs of run_backtest.  A window of fewer than two ratings has no  *)
(* deviation, so the runs use the smallest window that ever trades.        *)
(***************************************************************************)
MaxLen == 4

Symbols == {"BTCUSDT", "ETHUSDT"}
Timestamps == {-1000, 1000, 2000}
RatingValues == {F(1350, 1), F(1500, 1), F(1650, 1)}

SeqsUpTo(S, n) == UNION {[1..k -> S] : k \in 0..n}

Snapshots ==
    [symbol : {TradedSymbol}, timestamp : Timestamps, rating : RatingValues]

\* <<profit_percent, stop_loss_percent>>: levels on both sides of the entry
\* price, and both levels at the entry price
ExitPercents == {<<10, 10>>, <<0, 0>>}

Configs ==
    {[moving_averages |-> 2, z_score_threshold |-> F(0, 1),
      profit_percent |-> F(e[1], 1), stop_loss_percent |-> F(e[2], 1)] :
        e \in ExitPercents}

Init ==
    /\ config \in Configs
    /\ ratings \in SeqsUpTo(Snapshots, MaxLen)
    /\ signals = <<>>
    /\ price_data = <<>>
    /\ signal_idx = 0
    /\ price_idx = 0
    /\ portfolio = Portfolio_new(F(InitialCash, 1))
    /\ pc = "start"
    /\ last = NoStep
    /\ result = [ok |-> FALSE, orders |-> <<>>]
    /\ ticks = <<>>
    /\ EngineIdle

Next == Prepare \/ Align \/ ProcessTick \/ Finish

Spec == Init /\ [][Next]_vars

(***************************************************************************)
(* calculate_z_score_signals on its own: any list of snapshots of two      *)
(* symbols, in any order, any window length up to MaxWindow.               *)
(***************************************************************************)
MaxSigLen == 3
MaxWindow == 2

SigSnapshots ==
    [symbol : Symbols, timestamp : {1000, 2000}, rating : RatingValues]

SigConfigs ==
    [moving_averages : 0..MaxWindow,
     z_score_threshold : {F(0, 1), F(1, 1), F(2, 1)},
     profit_percent : {F(10, 1)}, stop_loss_percent : {F(10, 1)}]

InitSig ==
    /\ config \in SigConfigs
    /\ ratings \in SeqsUpTo(SigSnapshots, MaxSigLen)
    /\ signals = <<>>
    /\ price_data = <<>>
    /\ signal_idx = 0
    /\ price_idx = 0
    /\ portfolio = Portfolio_new(F(InitialCash, 1))
    /\ pc = "start"
    /\ last = NoStep
    /\ result = [ok |-> FALSE, orders |-> <<>>]
    /\ ticks = <<>>
    /\ EngineIdle

NextSig == Prepare

SpecSig == InitSig /\ [][NextSig]_vars

(***************************************************************************)
(* The Portfolio called directly, as test_position_opening does: any       *)
(* allocation fraction, several symbols.                                   *)
(***************************************************************************)
MaxCalls == 2

\* direct calls run under one of the configs of run_backtest
Allocations == {F(1, 2), F(95, 100), F(1, 1)}
CallPrices == {F(100, 1), F(110, 1)}

InitPortfolio ==
    /\ config \in Configs
    /\ ratings = <<>>
    /\ signals = <<>>
    /\ price_data = <<>>
    /\ signal_idx = 0
    /\ price_idx = 0
    /\ portfolio = Portfolio_new(F(InitialCash, 1))
    /\ pc = "calls"
    /\ last = NoStep
    /\ result = [ok |-> FALSE, orders |-> <<>>]
    /\ ticks = <<>>
    /\ EngineIdle

OpenCall ==
    /\ pc = "calls"
    /\ Len(portfolio.orders) < MaxCalls
    /\ \E symbol \in Symbols, price \in CallPrices, alloc \in Allocations :
          /\ portfolio' = open_position(portfolio, symbol, price, 1000, config, alloc)
          /\ last' = [NoStep EXCEPT !.kind = "open", !.symbol = symbol,
                                    !.price = price, !.time = 1000,
                                    !.alloc = alloc, !.before = portfolio,
                                    !.mid = portfolio']
    /\ UNCHANGED <<config, ratings, signals, price_data, signal_idx, price_idx,
                   pc, result, ticks>>
    /\ UNCHANGED engine_vars

CloseCall ==
    /\ pc = "calls"
    /\ Len(portfolio.orders) < MaxCalls
    /\ \E symbol \in Symbols, price \in CallPrices :
          /\ portfolio' = close_position(portfolio, symbol, price, 2000, "EXIT_ZSCORE")
          /\ last' = [NoStep EXCEPT !.kind = "close", !.symbol = symbol,
                                    !.price = price, !.time = 2000,
                                    !.before = portfolio, !.mid = portfolio']
    /\ UNCHANGED <<config, ratings, signals, price_data, signal_idx, price_idx,
                   pc, result, ticks>>
    /\ UNCHANGED engine_vars

\* run_backtest and the direct calls side by side
InitEntry == Init \/ InitPortfolio

NextEntry == Prepare \/ Align \/ ProcessTick \/ Finish \/ OpenCall \/ CloseCall

SpecEntry == InitEntry /\ [][NextEntry]_vars

(***************************************************************************)
(* HybridScore::calculate (data.rs 19-61).  A division by an open price of *)
(* zero gives an infinity or a NaN; f64::max and f64::min return the       *)
(* argument that is not a NaN.                                             *)
(***************************************************************************)
fabs(x) == <<Abs(x[1]), x[2]>>

fmax(x, y) == IF flt(x, y) THEN y ELSE x
fmin(x, y) == IF flt(y, x) THEN y ELSE x

score_of(open, close, taker_buy_volume, taker_sell_volume) ==
    IF open = Zero
    THEN \* price_change is +inf, -inf or NaN: never below 0.001 in size
         (IF fgt(close, open) THEN F(1, 1) ELSE F(0, 1))
    ELSE LET price_change == fdiv(fsub(close, open), open)
         IN  IF flt(fabs(price_change), F(1, 1000))
             THEN F(1, 2)
             ELSE fmin(fmax(fadd(F(1, 2), fmul(price_change, F(50, 1))),
                            F(0, 1)), F(1, 1))

confidence_of(score) ==
    IF flt(fabs(fsub(score, F(1, 2))), F(1, 10)) THEN "Neutral"
    ELSE IF flt(fabs(fsub(score, F(1, 2))), F(1, 4)) THEN "Low"
    ELSE "High"

HybridScore_calculate(open, close, taker_buy_volume, taker_sell_volume) ==
    LET score == score_of(open, close, taker_buy_volume, taker_sell_volume)
    IN  [price_up |-> fgt(close, open),
         price_unchanged |-> flt(fabs(fsub(close, open)), F(1, 1000)),
         taker_buy_dominant |-> fgt(taker_buy_volume, taker_sell_volume),
         score |-> score,
         confidence |-> confidence_of(score)]

(***************************************************************************)
(* calculate_ratings (glicko.rs 159-210).  update_rating is a function of  *)
(* the player, the opponent and the score alone; its exponentials,         *)
(* logarithms and roots are not evaluated: a player's rating, deviation    *)
(* and volatility are kept as the updates applied, in order, to the state  *)
(* of GlickoPlayer::new (1500, 350, 0.06).                                 *)
(***************************************************************************)
DEFAULT_RATING == 1500
DEFAULT_RD == 350
benchmark_rating == 1500
benchmark_rd == 50

GlickoPlayer_new(symbol) ==
    [symbol |-> symbol,
     from |-> <<DEFAULT_RATING, DEFAULT_RD, F(6, 100)>>,
     updates |-> <<>>]

update_rating(player, opponent_rating, opponent_rd, score) ==
    [player EXCEPT !.updates = Append(@, <<opponent_rating, opponent_rd, score>>)]

RECURSIVE InsertByOpenTime(_, _)
InsertByOpenTime(s, k) ==
    IF s = <<>> THEN <<k>>
    ELSE IF k.open_time < Head(s).open_time THEN <<k>> \o s
    ELSE <<Head(s)>> \o InsertByOpenTime(Tail(s), k)

\* calculate_ratings without its sort
sort_by_open_time_skipped(s) == s

\* klines.sort_by_key(|k| k.open_time): a stable sort
RECURSIVE sort_by_open_time(_)
sort_by_open_time(s) ==
    IF s = <<>> THEN <<>>
    ELSE InsertByOpenTime(sort_by_open_time(SubSeq(s, 1, Len(s) - 1)), s[Len(s)])

\* players.entry(symbol).or_insert_with(new), with one player for all symbols
player_entry_shared(ps, symbol) ==
    IF DOMAIN ps = {} THEN GlickoPlayer_new(symbol)
    ELSE ps[CHOOSE k \in DOMAIN ps : TRUE]

\* players.entry(symbol).or_insert_with(|| GlickoPlayer::new(symbol))
player_entry(ps, symbol) ==
    IF symbol \in DOMAIN ps THEN ps[symbol] ELSE GlickoPlayer_new(symbol)

\* the body of the loop over the klines: the players after it, the hybrid
\* score and the rating record pushed
rate_kline(ps, kline) ==
    LET player == player_entry(ps, kline.symbol)
        taker_sell_volume == fsub(kline.volume, kline.taker_buy_base_asset_volume)
        hs == HybridScore_calculate(kline.open, kline.close,
                                    kline.taker_buy_base_asset_volume,
                                    taker_sell_volume)
        updated_player == update_rating(player, benchmark_rating, benchmark_rd,
                                        hs.score)
    IN  [players |-> insert(ps, kline.symbol, updated_player),
         score_call |-> <<kline.open, kline.close,
                          kline.taker_buy_base_asset_volume, taker_sell_volume>>,
         hybrid_score |-> hs,
         rating_record |-> [symbol |-> kline.symbol,
                            timestamp |-> kline.open_time,
                            rating |-> <<updated_player.from, updated_player.updates>>,
                            performance_score |-> hs.score]]

RECURSIVE rate_from(_, _, _, _)
rate_from(ks, i, ps, out) ==
    IF i > Len(ks) THEN out
    ELSE LET r == rate_kline(ps, ks[i])
         IN  rate_from(ks, i + 1, r.players, Append(out, r.rating_record))

\* calculate_ratings as a function of its argument
calculate_ratings(ks) ==
    [ok |-> TRUE, ratings |-> rate_from(sort_by_open_time(ks), 1, <<>>, <<>>)]

SortKlines ==
    /\ pc = "klines"
    /\ klines' = sort_by_open_time(klines)
    /\ pc' = "rate"
    /\ UNCHANGED <<config, ratings, signals, price_data, signal_idx, price_idx,
                   portfolio, result, last, ticks>>
    /\ UNCHANGED <<kline_idx, players, score_call, hybrid_score, klines_in,
                   solver, windowed>>

RateKline ==
    /\ pc = "rate"
    /\ kline_idx < Len(klines)
    /\ LET r == rate_kline(players, klines[kline_idx + 1])
       IN  /\ players' = r.players
           /\ score_call' = Some(r.score_call)
           /\ hybrid_score' = Some(r.hybrid_score)
           /\ ratings' = Append(ratings, r.rating_record)
    /\ kline_idx' = kline_idx + 1
    /\ UNCHANGED <<config, signals, price_data, signal_idx, price_idx,
                   portfolio, pc, result, last, ticks>>
    /\ UNCHANGED <<klines, klines_in, solver, windowed>>

ReturnRatings ==
    /\ pc = "rate"
    /\ kline_idx = Len(klines)
    /\ pc' = "rated"
    /\ result' = [ok |-> TRUE, ratings |-> ratings]
    /\ UNCHANGED <<config, ratings, signals, price_data, signal_idx, price_idx,
                   portfolio, last, ticks>>
    /\ UNCHANGED engine_vars

\* the klines: two symbols, any order of open times, a fall, a small rise
\* and a large rise of the price
MaxKlines == 3

KlineOpenTimes == {1000, 2000}
KlineCloses == {F(95, 1), F(1003, 10), F(105, 1)}

Klines ==
    [symbol : Symbols, open_time : KlineOpenTimes, open : {F(100, 1)},
     close : KlineCloses, volume : {F(100, 1)},
     taker_buy_base_asset_volume : {F(60, 1)}]

InitRatings ==
    /\ config \in {c \in Configs : c.profit_percent = F(10, 1)}
    /\ ratings = <<>>
    /\ signals = <<>>
    /\ price_data = <<>>
    /\ signal_idx = 0
    /\ price_idx = 0
    /\ portfolio = Portfolio_new(F(InitialCash, 1))
    /\ pc = "klines"
    /\ last = NoStep
    /\ result = [ok |-> FALSE, ratings |-> <<>>]
    /\ ticks = <<>>
    /\ klines \in SeqsUpTo(Klines, MaxKlines)
    /\ klines_in = klines
    /\ kline_idx = 0
    /\ players = <<>>
    /\ score_call = None
    /\ hybrid_score = None
    /\ solver = [pc |-> "idle"]
    /\ windowed = [pc |-> "idle"]

NextRatings == SortKlines \/ RateKline \/ ReturnRatings

SpecRatings == InitRatings /\ [][NextRatings]_vars

\* run_backtest is not running
BacktestIdle ==
    /\ config \in {c \in Configs : c.profit_percent = F(10, 1)}
    /\ ratings = <<>>
    /\ signals = <<>>
    /\ price_data = <<>>
    /\ signal_idx = 0
    /\ price_idx = 0
    /\ portfolio = Portfolio_new(F(InitialCash, 1))
    /\ last = NoStep
    /\ result = [ok |-> FALSE, orders |-> <<>>]
    /\ ticks = <<>>

(***************************************************************************)
(* HybridScore::calculate called directly, as the tests of data.rs do.     *)
(***************************************************************************)
ScoreOpens == {F(50, 1), F(100, 1)}
ScoreCloses ==
    {F(0, 1), F(90, 1), F(95, 1), F(99, 1), F(995, 10), F(997, 10),
     F(9995, 100), F(100, 1), F(10005, 100), F(1003, 10), F(1005, 10),
     F(101, 1), F(105, 1)}
ScoreVolumes == {F(500, 1), F(1000, 1)}

CalculateScore ==
    /\ pc = "score"
    /\ \E open \in ScoreOpens, close \in ScoreCloses,
          taker_buy_volume \in ScoreVolumes, taker_sell_volume \in ScoreVolumes :
          /\ score_call' = Some(<<open, close, taker_buy_volume, taker_sell_volume>>)
          /\ hybrid_score' = Some(HybridScore_calculate(open, close, taker_buy_volume,
                                                        taker_sell_volume))
    /\ UNCHANGED <<config, ratings, signals, price_data, signal_idx, price_idx,
                   portfolio, pc, result, last, ticks>>
    /\ UNCHANGED <<klines, kline_idx, players, klines_in, solver, windowed>>

InitScore ==
    /\ BacktestIdle
    /\ pc = "score"
    /\ EngineIdle

NextScore == CalculateScore

SpecScore == InitScore /\ [][NextScore]_vars

(***************************************************************************)
(* find_new_volatility (glicko.rs 63-110).  A point x of the search is     *)
(* ln(q) + r for rationals q and r (kind "ln"), or the secant point of an  *)
(* iteration of the refinement loop (kind "secant").  exp(x) is not        *)
(* evaluated: f_function takes it as a further argument, any value exp can *)
(* give; in the refinement loop f_function is not evaluated at all, and    *)
(* the two tests on its value go either way.                               *)
(***************************************************************************)
TAU == F(1, 2)
MaxIterations == 50

\* the steps of the bracket search followed, and the values of exp tried
MaxK == 3
ExpOutcomes == {F(0, 1), F(1, 8), F(1, 4)}

\* q.ln()
ln_of(q) == [kind |-> "ln", ln |-> q, plus |-> Zero, n |-> 0]

\* the secant point big_c of iteration n
secant_point(n) == [kind |-> "secant", ln |-> Zero, plus |-> Zero, n |-> n]

\* a - k * TAU, with k starting from 0
bracket_point_from_zero(a, k) ==
    [a EXCEPT !.plus = fsub(@, fmul(F(k - 1, 1), TAU))]

\* a - k * TAU
bracket_point(a, k) == [a EXCEPT !.plus = fsub(@, fmul(F(k, 1), TAU))]

\* x - a, for two points over the same logarithm
minus(x, a) == fsub(x.plus, a.plus)

\* a value that is not a number: no comparison with it holds
NaN == <<0, 0>>

\* f_function(x, ...), with ex the value of x.exp(); for a = ln(0), which is
\* -inf, x - a is -inf - -inf, not a number
f_function(x, ex, delta_squared, phi_squared, v, a, tau_squared) ==
    LET num == fmul(ex, fsub(fsub(fsub(delta_squared, phi_squared), v), ex))
        sum == fadd(fadd(phi_squared, v), ex)
        den == fmul(F(2, 1), fmul(sum, sum))
    IN  IF a.ln = Zero THEN NaN
        ELSE fsub(fdiv(num, den), fdiv(minus(x, a), tau_squared))

\* the bracket search going on while f is not negative
bracket_goes_on_flipped(fx) == ~flt(fx, Zero)

\* the condition of the while loop of the bracket search
bracket_goes_on(fx) == flt(fx, Zero)

\* the for loop moving on to its next iteration
next_iteration(i) == i + 1

\* lines 69-78: the first bound, and the second one when delta^2 > phi^2 + v
Bounds ==
    /\ solver.pc = "bounds"
    /\ LET a == ln_of(solver.sigma_squared)
       IN  solver' =
             IF fgt(solver.delta_squared, fadd(solver.phi_squared, solver.v))
             THEN [solver EXCEPT
                     !.pc = "illinois", !.a = a, !.big_a = a,
                     !.big_b = ln_of(fsub(fsub(solver.delta_squared,
                                               solver.phi_squared), solver.v))]
             ELSE [solver EXCEPT !.pc = "bracket", !.a = a, !.big_a = a, !.k = 1]
    /\ UNCHANGED <<config, ratings, signals, price_data, signal_idx, price_idx,
                   portfolio, pc, result, last, ticks>>
    /\ UNCHANGED <<klines, kline_idx, players, score_call, hybrid_score,
                   klines_in, windowed>>

\* lines 79-84: one test of the while loop, with its body or the exit; the
\* value of f_function at a - k * TAU is the one of solver.f_bracket
BracketStep ==
    /\ solver.pc = "bracket"
    /\ LET x == bracket_point(solver.a, solver.k)
           fx == solver.f_bracket[solver.k]
           seen == Append(solver.evaluated, [x |-> x, k |-> solver.k, f |-> fx])
       IN  IF bracket_goes_on(fx)
           THEN /\ solver.k < MaxK
                /\ solver' = [solver EXCEPT !.k = @ + 1, !.evaluated = seen]
           ELSE solver' = [solver EXCEPT !.pc = "illinois", !.big_b = x,
                                         !.evaluated = seen]
    /\ UNCHANGED <<config, ratings, signals, price_data, signal_idx, price_idx,
                   portfolio, pc, result, last, ticks>>
    /\ UNCHANGED <<klines, kline_idx, players, score_call, hybrid_score,
                   klines_in, windowed>>

\* lines 90-107: one iteration of the refinement loop
IllinoisStep ==
    /\ solver.pc = "illinois"
    /\ solver.iter < MaxIterations
    /\ \E below_epsilon \in BOOLEAN, sign_flips \in BOOLEAN :
          LET big_c == secant_point(solver.iter + 1)
          IN  solver' =
                IF below_epsilon
                THEN [solver EXCEPT !.pc = "returned", !.iter = solver.iter + 1,
                                    !.converged = TRUE,
                                    !.returned = Some(big_c)]
                ELSE [solver EXCEPT
                        !.iter = next_iteration(solver.iter),
                        !.big_a = IF sign_flips THEN solver.big_b ELSE @,
                        !.big_b = big_c]
    /\ UNCHANGED <<config, ratings, signals, price_data, signal_idx, price_idx,
                   portfolio, pc, result, last, ticks>>
    /\ UNCHANGED <<klines, kline_idx, players, score_call, hybrid_score,
                   klines_in, windowed>>

\* line 109: the loop has run out
Fallback ==
    /\ solver.pc = "illinois"
    /\ solver.iter = MaxIterations
    /\ solver' = [solver EXCEPT !.pc = "returned", !.returned = Some(solver.big_a)]
    /\ UNCHANGED <<config, ratings, signals, price_data, signal_idx, price_idx,
                   portfolio, pc, result, last, ticks>>
    /\ UNCHANGED <<klines, kline_idx, players, score_call, hybrid_score,
                   klines_in, windowed>>

\* the values exp takes at a - k * TAU for k = 1, 2, ...: below exp(a), which
\* is sigma^2, and not growing with k
ExpTables(sigma_squared) ==
    {t \in [1..MaxK -> ExpOutcomes] :
        /\ \A k \in 1..MaxK : fle(t[k], sigma_squared)
        /\ \A j, k \in 1..MaxK : j < k => fle(t[k], t[j])}

\* the arguments of find_new_volatility: sigma^2, delta^2, phi^2 and v
SigmaSquares == {F(0, 1), F(1, 4)}
DeltaSquares == {F(0, 1), F(9, 1)}
PhiSquares == {F(4, 1)}
Variances == {F(1, 2), F(6, 1)}

InitSolve ==
    /\ BacktestIdle
    /\ pc = "idle"
    /\ klines = <<>>
    /\ klines_in = <<>>
    /\ kline_idx = 0
    /\ players = <<>>
    /\ score_call = None
    /\ hybrid_score = None
    /\ windowed = [pc |-> "idle"]
    /\ \E s \in SigmaSquares, d \in DeltaSquares, p \in PhiSquares, v \in Variances :
       \E exps \in ExpTables(s) :
          solver = [pc |-> "bounds", sigma_squared |-> s, delta_squared |-> d,
                    phi_squared |-> p, v |-> v, a |-> ln_of(s), k |-> 0,
                    exps |-> exps,
                    f_bracket |-> [k \in 1..MaxK |->
                                     f_function(bracket_point(ln_of(s), k), exps[k],
                                                d, p, v, ln_of(s), fmul(TAU, TAU))],
                    evaluated |-> <<>>, big_a |-> ln_of(s), big_b |-> ln_of(s),
                    iter |-> 0, converged |-> FALSE, returned |-> None]

NextSolve == Bounds \/ BracketStep \/ IllinoisStep \/ Fallback

SpecSolve == InitSolve /\ [][NextSolve]_vars

\* the function runs on: each of its steps is taken once it can be
SpecSolveFair == SpecSolve /\ WF_vars(NextSolve)

(***************************************************************************)
(* run_windowed_backtest (backtest.rs 582-617).  Its times are counted in  *)
(* seconds: the factor 1000 of the milliseconds is common to every time of *)
(* the orchestrator and is left out, the integers here having 32 bits.     *)
(***************************************************************************)
MonthLength == 30 * 24 * 60 * 60
HalfMonth == MonthLength \div 2

\* the results followed: more than any run that ends has
MaxResults == 6

\* the loop of run_backtest over signals and prices (backtest.rs 485-556)
RECURSIVE run_loop(_, _, _, _, _, _)
run_loop(cfg, sigs, prices, si, pi, p) ==
    IF si < Len(sigs) /\ pi < Len(prices)
    THEN LET signal_time == sigs[si + 1][1]
             price_time == prices[pi + 1][1]
         IN  IF signal_time = price_time
             THEN run_loop(cfg, sigs, prices, si + 1, pi + 1,
                           process_tick(p, sigs[si + 1][3], TradedSymbol,
                                        prices[pi + 1][2], signal_time, cfg))
             ELSE IF signal_time < price_time
                  THEN run_loop(cfg, sigs, prices, si + 1, pi, p)
                  ELSE run_loop(cfg, sigs, prices, si, pi + 1, p)
    ELSE p

\* run_backtest turning away ratings that are not in the order of their times
run_backtest_rejecting(cfg, rs) ==
    IF \A i, j \in 1..Len(rs) : i < j => rs[i].timestamp <= rs[j].timestamp
    THEN [ok |-> TRUE, orders |-> <<>>]
    ELSE [ok |-> FALSE, orders |-> <<>>]

\* run_backtest as a function of its arguments
run_backtest(cfg, rs) ==
    LET sigs == calculate_z_score_signals(rs, cfg.moving_averages,
                                          cfg.z_score_threshold)
        prices == build_price_data(rs, TradedSymbol)
        fresh == Portfolio_new(F(InitialCash, 1))
        p == IF TradedSymbol \in DOMAIN sigs /\ TradedSymbol \in DOMAIN prices
             THEN run_loop(cfg, sigs[TradedSymbol], prices[TradedSymbol], 0, 0, fresh)
             ELSE fresh
    IN  [ok |-> TRUE, orders |-> p.orders]

\* config.window_size.unwrap_or(12)
unwrap_or(option, default) == IF option = None THEN default ELSE option[1]

\* the step of half a window taken as a whole window
step_of_full_window(window_size_ms) == window_size_ms

\* let step_size_ms = window_size_ms / 2
step_size_of(window_size_ms) == window_size_ms \div 2

\* the ratings of a window without its last instant
filter_window_open_end(rs, current_start, current_end) ==
    LET Inside(r) == r.timestamp >= current_start /\ r.timestamp < current_end
    IN  SelectSeq(rs, Inside)

\* ratings.iter().filter(|r| r.timestamp >= current_start && r.timestamp <= current_end)
filter_window(rs, current_start, current_end) ==
    LET Inside(r) == r.timestamp >= current_start /\ r.timestamp <= current_end
    IN  SelectSeq(rs, Inside)

\* BacktestConfig { start_time: current_start, end_time: current_end, ..config.clone() }
window_config_of(cfg, current_start, current_end) ==
    [cfg EXCEPT !.start_time = current_start, !.end_time = current_end]

\* run_backtest(window_config, window_ratings) of line 609 for every window
\* start of a run: run_backtest is a function of its two arguments, and its
\* values are tabulated when the run is entered
window_backtests(cfg, rs) ==
    LET window_size_ms == unwrap_or(cfg.window_size, 12) * MonthLength
        starts == {s \in {cfg.start_time + k * step_size_of(window_size_ms) :
                            k \in 0..MaxResults} :
                     s + window_size_ms <= cfg.end_time}
    IN  [s \in starts |->
           run_backtest(window_config_of(cfg, s, s + window_size_ms),
                        filter_window(rs, s, s + window_size_ms))]

\* lines 586-590
StartWindowed ==
    /\ windowed.pc = "start"
    /\ LET window_size_ms == unwrap_or(config.window_size, 12) * MonthLength
       IN  windowed' = [windowed EXCEPT
                          !.pc = "loop",
                          !.window_size_ms = window_size_ms,
                          !.step_size_ms = step_size_of(window_size_ms),
                          !.current_start = config.start_time]
    /\ UNCHANGED <<config, ratings, signals, price_data, signal_idx, price_idx,
                   portfolio, pc, result, last, ticks>>
    /\ UNCHANGED <<klines, kline_idx, players, score_call, hybrid_score,
                   klines_in, solver>>

\* lines 592-613: one turn of the while loop; turn is the parity of the turns
\* taken (history)
WindowStep ==
    /\ windowed.pc = "loop"
    /\ windowed.current_start + windowed.window_size_ms <= config.end_time
    /\ LET current_end == windowed.current_start + windowed.window_size_ms
           window_ratings == filter_window(ratings, windowed.current_start,
                                           current_end)
           window_config == window_config_of(config, windowed.current_start,
                                             current_end)
           r == windowed.backtests[windowed.current_start]
           moved == [windowed EXCEPT
                       !.current_start = @ + windowed.step_size_ms,
                       !.turn = 1 - @]
       IN  IF window_ratings = <<>>
           THEN windowed' = moved
           ELSE IF r.ok
                THEN /\ Len(windowed.results) < MaxResults
                     /\ windowed' =
                          [moved EXCEPT !.results =
                             Append(@, [start_time |-> window_config.start_time,
                                        end_time |-> window_config.end_time,
                                        orders |-> r.orders])]
                ELSE windowed' = [windowed EXCEPT !.pc = "returned",
                                                  !.returned = [ok |-> FALSE,
                                                                results |-> <<>>]]
    /\ UNCHANGED <<config, ratings, signals, price_data, signal_idx, price_idx,
                   portfolio, pc, result, last, ticks>>
    /\ UNCHANGED <<klines, kline_idx, players, score_call, hybrid_score,
                   klines_in, solver>>

\* line 616: Ok(results)
ReturnWindowed ==
    /\ windowed.pc = "loop"
    /\ ~(windowed.current_start + windowed.window_size_ms <= config.end_time)
    /\ windowed' = [windowed EXCEPT !.pc = "returned",
                                    !.returned = [ok |-> TRUE,
                                                  results |-> windowed.results]]
    /\ UNCHANGED <<config, ratings, signals, price_data, signal_idx, price_idx,
                   portfolio, pc, result, last, ticks>>
    /\ UNCHANGED <<klines, kline_idx, players, score_call, hybrid_score,
                   klines_in, solver>>

\* the ratings of the orchestrator, in any order, and its configs: no
\* window_size (12 months), and windows of 0, 1 and 2 months
MaxWinRatings == 3

WindowSnapshots ==
    [symbol : {TradedSymbol}, timestamp : {0, HalfMonth, 3 * HalfMonth},
     rating : {F(1350, 1), F(1650, 1)}]

WindowRanges ==
    {<<None, 0, 0>>, <<None, 0, 24 * HalfMonth>>, <<None, HalfMonth, 37 * HalfMonth>>}
    \cup {<<Some(m), s, e>> : m \in {1, 2}, s \in {0, HalfMonth},
                              e \in {-1, 2 * HalfMonth, 5 * HalfMonth, 6 * HalfMonth}}
    \cup {<<Some(0), s, e>> : s \in {0, HalfMonth}, e \in {-1, HalfMonth}}

WindowedConfigs ==
    {[moving_averages |-> 2, z_score_threshold |-> F(0, 1),
      profit_percent |-> F(10, 1), stop_loss_percent |-> F(10, 1),
      window_size |-> w[1], start_time |-> w[2], end_time |-> w[3]] :
        w \in WindowRanges}

InitWindowed ==
    /\ config \in WindowedConfigs
    /\ ratings \in SeqsUpTo(WindowSnapshots, MaxWinRatings)
    /\ signals = <<>>
    /\ price_data = <<>>
    /\ signal_idx = 0
    /\ price_idx = 0
    /\ portfolio = Portfolio_new(F(InitialCash, 1))
    /\ pc = "idle"
    /\ last = NoStep
    /\ result = [ok |-> FALSE, orders |-> <<>>]
    /\ ticks = <<>>
    /\ klines = <<>>
    /\ klines_in = <<>>
    /\ kline_idx = 0
    /\ players = <<>>
    /\ score_call = None
    /\ hybrid_score = None
    /\ solver = [pc |-> "idle"]
    /\ windowed = [pc |-> "start", window_size_ms |-> 0, step_size_ms |-> 0,
                   current_start |-> 0, turn |-> 0, results |-> <<>>,
                   backtests |-> window_backtests(config, ratings),
                   returned |-> [ok |-> FALSE, results |-> <<>>]]

NextWindowed == StartWindowed \/ WindowStep \/ ReturnWindowed

SpecWindowed == InitWindowed /\ [][NextWindowed]_vars

\* the function runs on: each of its steps is taken once it can be
SpecWindowedFair == SpecWindowed /\ WF_vars(NextWindowed)

\* the calls that take records from the caller: calculate_ratings on klines
\* and run_windowed_backtest, with run_backtest on each window, on ratings,
\* both in any order
InitInputs == InitRatings \/ InitWindowed

NextInputs == NextRatings \/ NextWindowed

SpecInputs == InitInputs /\ [][NextInputs]_vars

(***************************************************************************)
(* Claims                                                                  *)
(***************************************************************************)
CountSide(orders, symbol, side) ==
    Cardinality({i \in 1..Len(orders) :
                    orders[i].symbol = symbol /\ orders[i].side = side})

LastOrder(p) == p.orders[Len(p.orders)]

\* the orders of p are those of q and one more
OneMoreOrder(p, q) ==
    /\ Len(p.orders) = Len(q.orders) + 1
    /\ SubSeq(p.orders, 1, Len(q.orders)) = q.orders

\* C1: at every point of run_backtest each symbol has at most one open
\* position: its BUY orders minus its SELL orders are 0 or 1, and 1 exactly
\* when the symbol holds a position.
C1_AtMostOneOpenPosition ==
    \A s \in Symbols :
        LET open == CountSide(portfolio.orders, s, "BUY")
                    - CountSide(portfolio.orders, s, "SELL")
        IN  /\ open \in {0, 1}
            /\ open = 1 <=> s \in DOMAIN portfolio.positions

\* a BUY tick has been processed while the position was open, and it still is
C1_Witness ==
    /\ last.kind = "tick"
    /\ last.signal = "BUY"
    /\ TradedSymbol \in DOMAIN last.before.positions
    /\ TradedSymbol \in DOMAIN portfolio.positions

\* C2: OCO tie-break: when the OCO check of a tick finds a position with
\* price <= stop_loss and price >= take_profit, the position is closed by
\* exactly one SELL order, whose reason is EXIT_STOP.
C2_StopLossWinsTie ==
    last.kind = "tick" =>
        \A s \in DOMAIN last.mid.positions :
            LET pos == last.mid.positions[s]
            IN  (fle(last.price, pos.stop_loss_price)
                 /\ fge(last.price, pos.take_profit_price))
                => /\ s \notin DOMAIN portfolio.positions
                   /\ OneMoreOrder(portfolio, last.mid)
                   /\ LastOrder(portfolio).symbol = s
                   /\ LastOrder(portfolio).side = "SELL"
                   /\ LastOrder(portfolio).reason = "EXIT_STOP"

\* the OCO check of the last tick met a position at both levels at once
C2_Witness ==
    /\ last.kind = "tick"
    /\ \E s \in DOMAIN last.mid.positions :
          /\ fle(last.price, last.mid.positions[s].stop_loss_price)
          /\ fge(last.price, last.mid.positions[s].take_profit_price)
    /\ LastOrder(portfolio).reason = "EXIT_STOP"

\* C3 as stated: after every processed tick, whatever its signal, a position
\* still open has stop_loss < price < take_profit; a position of the tick with
\* price <= stop_loss has been closed with reason EXIT_STOP, otherwise one
\* with price >= take_profit has been closed with reason EXIT_PROFIT.
C3_Original ==
    last.kind = "tick" =>
        /\ \A s \in DOMAIN portfolio.positions :
              /\ flt(portfolio.positions[s].stop_loss_price, last.price)
              /\ flt(last.price, portfolio.positions[s].take_profit_price)
        /\ \A s \in DOMAIN last.before.positions \cup DOMAIN last.mid.positions :
              LET pos == IF s \in DOMAIN last.mid.positions
                         THEN last.mid.positions[s]
                         ELSE last.before.positions[s]
                  closed(reason) ==
                      /\ s \notin DOMAIN portfolio.positions
                      /\ Len(portfolio.orders) > Len(last.before.orders)
                      /\ LastOrder(portfolio).symbol = s
                      /\ LastOrder(portfolio).side = "SELL"
                      /\ LastOrder(portfolio).reason = reason
              IN  IF fle(last.price, pos.stop_loss_price) THEN closed("EXIT_STOP")
                  ELSE fge(last.price, pos.take_profit_price)
                       => closed("EXIT_PROFIT")

\* C3, amended: after every processed tick, whatever its signal, a position
\* still open has stop_loss < price < take_profit; a position that is open
\* when the OCO check of the tick runs (one the SELL signal of the tick has
\* not closed before) with price <= stop_loss has been closed with reason
\* EXIT_STOP, otherwise one with price >= take_profit has been closed with
\* reason EXIT_PROFIT, and any other position is left as it was.
C3_OcoIndependentOfSignal ==
    last.kind = "tick" =>
        /\ \A s \in DOMAIN portfolio.positions :
              /\ flt(portfolio.positions[s].stop_loss_price, last.price)
              /\ flt(last.price, portfolio.positions[s].take_profit_price)
        /\ \A s \in DOMAIN last.mid.positions :
              LET pos == last.mid.positions[s]
                  closed(reason) ==
                      /\ s \notin DOMAIN portfolio.positions
                      /\ OneMoreOrder(portfolio, last.mid)
                      /\ LastOrder(portfolio).symbol = s
                      /\ LastOrder(portfolio).side = "SELL"
                      /\ LastOrder(portfolio).price = last.price
                      /\ LastOrder(portfolio).reason = reason
              IN  IF fle(last.price, pos.stop_loss_price) THEN closed("EXIT_STOP")
                  ELSE IF fge(last.price, pos.take_profit_price)
                       THEN closed("EXIT_PROFIT")
                  ELSE /\ s \in DOMAIN portfolio.positions
                       /\ portfolio.positions[s] = pos
                       /\ portfolio.orders = last.mid.orders

\* a HOLD tick closed a position that had reached its take-profit level
C3_Witness ==
    /\ last.kind = "tick"
    /\ last.signal = "HOLD"
    /\ TradedSymbol \in DOMAIN last.before.positions
    /\ flt(last.before.positions[TradedSymbol].stop_loss_price, last.price)
    /\ LastOrder(portfolio).reason = "EXIT_PROFIT"
    /\ LastOrder(portfolio).timestamp = last.time

\* C4: within a tick the signal is executed before the OCO check: a SELL tick
\* on an open position appends exactly one order, a SELL at the tick price
\* with reason EXIT_ZSCORE, also when the price is at or beyond an exit level.
C4_SignalExitBeforeOco ==
    (/\ last.kind = "tick"
     /\ last.signal = "SELL"
     /\ TradedSymbol \in DOMAIN last.before.positions)
    => /\ OneMoreOrder(portfolio, last.before)
       /\ LastOrder(portfolio).symbol = TradedSymbol
       /\ LastOrder(portfolio).side = "SELL"
       /\ LastOrder(portfolio).price = last.price
       /\ LastOrder(portfolio).timestamp = last.time
       /\ LastOrder(portfolio).reason = "EXIT_ZSCORE"
       /\ TradedSymbol \notin DOMAIN portfolio.positions

\* a SELL tick met an open position at a price at or below its stop-loss
C4_Witness ==
    /\ last.kind = "tick"
    /\ last.signal = "SELL"
    /\ TradedSymbol \in DOMAIN last.before.positions
    /\ fle(last.price, last.before.positions[TradedSymbol].stop_loss_price)
    /\ LastOrder(portfolio).reason = "EXIT_ZSCORE"

\* what opening a position of `symbol` at `price` with the fraction `alloc`
\* of the cash of `b` makes of `b`: the portfolio `a`
EntryEffect(b, a, symbol, price, time, alloc) ==
    LET quantity == fdiv(fmul(alloc, b.cash), price)
    IN  /\ DOMAIN a.positions = DOMAIN b.positions \cup {symbol}
        /\ \A s \in DOMAIN b.positions : a.positions[s] = b.positions[s]
        /\ a.positions[symbol].quantity = quantity
        /\ a.positions[symbol].entry_price = price
        /\ a.positions[symbol].entry_time = time
        /\ a.positions[symbol].take_profit_price =
               fmul(price, F(100 * config.profit_percent[2]
                             + config.profit_percent[1],
                             100 * config.profit_percent[2]))
        /\ a.positions[symbol].stop_loss_price =
               fmul(price, F(100 * config.stop_loss_percent[2]
                             - config.stop_loss_percent[1],
                             100 * config.stop_loss_percent[2]))
        /\ a.cash = fsub(b.cash, fmul(quantity, price))
        /\ flt(a.cash, b.cash)
        /\ fge(a.cash, Zero)
        /\ OneMoreOrder(a, b)
        /\ LastOrder(a).symbol = symbol
        /\ LastOrder(a).side = "BUY"
        /\ LastOrder(a).reason = "ENTRY"
        /\ LastOrder(a).quantity = quantity
        /\ LastOrder(a).price = price
        /\ LastOrder(a).timestamp = time

\* the last step was a BUY tick on a flat symbol with cash and price > 0
BuyTickWhileFlat ==
    /\ last.kind = "tick"
    /\ last.signal = "BUY"
    /\ TradedSymbol \notin DOMAIN last.before.positions
    /\ fgt(last.before.cash, Zero)
    /\ fgt(last.price, Zero)

\* the last step was a direct open_position on a flat symbol, cash and
\* price > 0, with a fraction in (0, 1]
OpenCallWhileFlat ==
    /\ last.kind = "open"
    /\ last.symbol \notin DOMAIN last.before.positions
    /\ fgt(last.before.cash, Zero)
    /\ fgt(last.price, Zero)
    /\ fgt(last.alloc, Zero)
    /\ fle(last.alloc, F(1, 1))

C6_ExpectedConditionsAreNoOps ==
    /\ (/\ last.kind = "tick"
        /\ last.signal = "BUY"
        /\ TradedSymbol \in DOMAIN last.before.positions)
       => /\ last.mid = last.before
          /\ LET pos == last.before.positions[TradedSymbol]
             IN  (/\ flt(pos.stop_loss_price, last.price)
                  /\ flt(last.price, pos.take_profit_price))
                 => /\ portfolio.orders = last.before.orders
                    /\ portfolio.cash = last.before.cash
                    /\ portfolio.positions = last.before.positions
    /\ (/\ last.kind = "tick"
        /\ last.signal = "SELL"
        /\ TradedSymbol \notin DOMAIN last.before.positions)
       => /\ last.mid = last.before
          /\ portfolio.orders = last.before.orders
          /\ portfolio.cash = last.before.cash
          /\ portfolio.positions = last.before.positions
    /\ pc = "done" => result.ok /\ result.orders = portfolio.orders

\* run_backtest has returned after a BUY signal on an open position and a
\* position is still open
C6_Witness ==
    /\ pc = "done"
    /\ result.ok
    /\ Len(ticks) >= 2
    /\ symbol_signals[ticks[Len(ticks)].sidx + 1][3] = "BUY"
    /\ Len(portfolio.orders) = 1
    /\ TradedSymbol \in DOMAIN portfolio.positions
    /\ portfolio.positions[TradedSymbol].entry_time = ticks[1].time

SeedPoint == <<0, F(InitialCash, 1)>>

\* the value of portfolio p with the traded symbol at `price`
MarkToMarket(p, price) ==
    IF TradedSymbol \in DOMAIN p.positions
    THEN fadd(p.cash, fmul(p.positions[TradedSymbol].quantity, price))
    ELSE p.cash

\* the curve starts with the seed, a tick appends one point to it (its time,
\* the value after its entries and exits), no other step touches it
CurveGrowsByTicks ==
    /\ portfolio.equity_curve[1] = SeedPoint
    /\ Len(portfolio.equity_curve) = 1 + Len(ticks)
    /\ IF last.kind = "tick"
       THEN portfolio.equity_curve =
               Append(last.before.equity_curve,
                      <<last.time, MarkToMarket(portfolio, last.price)>>)
       ELSE portfolio.equity_curve = last.before.equity_curve
    /\ \A k \in 1..Len(ticks) : portfolio.equity_curve[k + 1][1] = ticks[k].time

NonDecreasingFrom(curve, first) ==
    \A i, j \in first..Len(curve) : i <= j => curve[i][1] <= curve[j][1]

\* C7 as stated: the equity curve starts as the one point (0, initial cash),
\* gains exactly one point per processed tick and is not otherwise modified,
\* and its timestamps are non-decreasing from the seed point onward.
C7_Original ==
    /\ CurveGrowsByTicks
    /\ NonDecreasingFrom(portfolio.equity_curve, 1)

\* C7, amended: the same, with the timestamps non-decreasing from the first
\* tick's point onward, and from the seed point onward when no processed tick
\* has a timestamp below 0, the timestamp of the seed.
C7_EquityCurve ==
    /\ CurveGrowsByTicks
    /\ NonDecreasingFrom(portfolio.equity_curve, 2)
    /\ (\A k \in 1..Len(ticks) : ticks[k].time >= 0)
       => NonDecreasingFrom(portfolio.equity_curve, 1)

\* two ticks at different times have been processed and a position is open
C7_Witness ==
    /\ Len(portfolio.equity_curve) = 3
    /\ portfolio.equity_curve[2][1] < portfolio.equity_curve[3][1]
    /\ TradedSymbol \in DOMAIN portfolio.positions
    /\ portfolio.equity_curve[3][2] # portfolio.cash

\* C8: signal/price alignment: a tick is processed only when the current
\* signal and the current price have equal timestamps; otherwise only the
\* side with the earlier timestamp moves on, and no order or equity point is
\* produced; each signal and each price is used in at most one tick, the
\* ticks are processed in non-decreasing timestamp order, and the walk goes
\* on exactly while neither sequence is exhausted.
C8_TwoPointerWalk ==
    /\ last.kind = "tick" =>
          /\ symbol_signals[last.sidx + 1][1] = symbol_prices[last.pidx + 1][1]
          /\ last.time = symbol_signals[last.sidx + 1][1]
          /\ last.signal = symbol_signals[last.sidx + 1][3]
          /\ last.price = symbol_prices[last.pidx + 1][2]
          /\ signal_idx = last.sidx + 1
          /\ price_idx = last.pidx + 1
          /\ ticks[Len(ticks)] =
                [sidx |-> last.sidx, pidx |-> last.pidx, time |-> last.time]
    /\ last.kind = "skip" =>
          LET signal_time == symbol_signals[last.sidx + 1][1]
              price_time == symbol_prices[last.pidx + 1][1]
          IN  /\ signal_time # price_time
              /\ signal_time < price_time =>
                    signal_idx = last.sidx + 1 /\ price_idx = last.pidx
              /\ price_time < signal_time =>
                    price_idx = last.pidx + 1 /\ signal_idx = last.sidx
              /\ portfolio = last.before
    /\ last.kind \in {"tick", "skip"} =>
          /\ last.sidx < Len(symbol_signals)
          /\ last.pidx < Len(symbol_prices)
    /\ \A i, j \in 1..Len(ticks) :
          i < j => /\ ticks[i].sidx < ticks[j].sidx
                   /\ ticks[i].pidx < ticks[j].pidx
                   /\ ticks[i].time <= ticks[j].time
    /\ \A i \in 1..Len(ticks) :
          /\ ticks[i].sidx < signal_idx
          /\ ticks[i].pidx < price_idx
    /\ pc = "done" =>
          \/ ~HasSeries
          \/ signal_idx = Len(symbol_signals)
          \/ price_idx = Len(symbol_prices)

\* the walk has ended after skipping prices and processing two ticks at
\* different times
C8_Witness ==
    /\ pc = "done"
    /\ Len(ticks) = 2
    /\ ticks[1].pidx > ticks[1].sidx
    /\ ticks[1].time < ticks[2].time
    /\ ticks[2].pidx = ticks[1].pidx + 1

\* the snapshots of symbol s in the input, by their place in it
SnapshotsOf(s) == {i \in 1..Len(ratings) : ratings[i].symbol = s}

\* how many snapshots of s are earlier than t / not later than t
Earlier(s, t) == Cardinality({i \in SnapshotsOf(s) : ratings[i].timestamp < t})
NotLater(s, t) == Cardinality({i \in SnapshotsOf(s) : ratings[i].timestamp <= t})

Max(a, b) == IF a >= b THEN a ELSE b

\* C9: warm-up: with the window length N a symbol with L snapshots gets
\* max(0, L - N) signals; the k-th of them carries the timestamp of the
\* (N + k)-th snapshot by timestamp, so none is for the first N snapshots and
\* the signals are in chronological order; a symbol without snapshots gets
\* no entry.  (N = 1, snapshots at t1 < t2: one signal, for t2.)
C9_WarmUp ==
    pc = "loop" =>
        \A s \in Symbols :
            LET L == Cardinality(SnapshotsOf(s))
                N == config.moving_averages
            IN  IF L = 0 THEN s \notin DOMAIN signals
                ELSE /\ s \in DOMAIN signals
                     /\ Len(signals[s]) = Max(0, L - N)
                     /\ \A k \in 1..Len(signals[s]) :
                           LET t == signals[s][k][1]
                           IN  /\ Earlier(s, t) < N + k
                               /\ N + k <= NotLater(s, t)
                     /\ \A j, k \in 1..Len(signals[s]) :
                           j <= k => signals[s][j][1] <= signals[s][k][1]

\* N = 1 and two snapshots of the traded symbol, the later one first in the
\* input: the one signal is for the later timestamp
C9_Witness ==
    /\ pc = "loop"
    /\ config.moving_averages = 1
    /\ Len(ratings) = 3
    /\ Cardinality(SnapshotsOf(TradedSymbol)) = 2
    /\ \E i, j \in SnapshotsOf(TradedSymbol) :
          i < j /\ ratings[i].timestamp > ratings[j].timestamp
    /\ Len(signals[TradedSymbol]) = 1
    /\ signals[TradedSymbol][1][1] = 2000

\* the place in the chronological (stable) order of s of the snapshot at
\* place i of the input, and the rating at place q of that order
PlaceOf(s, i) ==
    Earlier(s, ratings[i].timestamp)
    + Cardinality({j \in SnapshotsOf(s) :
                      j <= i /\ ratings[j].timestamp = ratings[i].timestamp})
RatingAt(s, q) ==
    ratings[CHOOSE i \in SnapshotsOf(s) : PlaceOf(s, i) = q].rating[1]

RECURSIVE SumRatings(_, _, _, _)
SumRatings(s, from, n, squared) ==
    IF n = 0 THEN 0
    ELSE (IF squared THEN RatingAt(s, from) * RatingAt(s, from)
          ELSE RatingAt(s, from))
         + SumRatings(s, from + 1, n - 1, squared)

\* the signal the k-th signal of s has to be: from the N ratings before the
\* (N + k)-th, in integers: z = D / sqrt(V), D = N*c - sum, V = N*sumsq - sum^2
ExpectedSignal(s, k) ==
    LET N == config.moving_averages
        th == config.z_score_threshold[1]
        c == RatingAt(s, N + k)
        D == N * c - SumRatings(s, k, N, FALSE)
        V == N * SumRatings(s, k, N, TRUE)
             - SumRatings(s, k, N, FALSE) * SumRatings(s, k, N, FALSE)
    IN  IF N = 0 \/ V = 0 THEN <<ZScoreZero, "HOLD">>
        ELSE <<[sgn |-> IF D > 0 THEN 1 ELSE IF D < 0 THEN -1 ELSE 0,
                sq |-> F(D * D, V)],
               IF D > 0 /\ D * D > th * th * V THEN "BUY"
               ELSE IF D < 0 /\ D * D > th * th * V THEN "SELL"
               ELSE "HOLD">>

C11_OneSnapshotPerCandle ==
    pc \in {"rate", "rated"} =>
        /\ Len(ratings) = kline_idx
        /\ pc = "rated" =>
              /\ result.ok
              /\ result.ratings = ratings
              /\ Len(result.ratings) = Len(klines_in)
              /\ klines_in = <<>> => result.ratings = <<>>
        \* the candles rated are the candles passed, each one once
        /\ Len(klines) = Len(klines_in)
        /\ \E f \in Permutations(1..Len(klines_in)) :
              \A i \in 1..Len(klines_in) : klines[i] = klines_in[f[i]]
        /\ \A i \in 1..Len(ratings) :
              /\ ratings[i].symbol = klines[i].symbol
              /\ ratings[i].timestamp = klines[i].open_time
        /\ \A i, j \in 1..Len(ratings) :
              (i < j /\ ratings[i].symbol = ratings[j].symbol)
                  => ratings[i].timestamp <= ratings[j].timestamp

\* three candles of two symbols, passed latest first, have been rated
C11_Witness ==
    /\ pc = "rated"
    /\ Len(klines_in) = 3
    /\ klines_in[1].open_time > klines_in[2].open_time
    /\ klines_in[1].symbol = klines_in[2].symbol
    /\ klines_in[3].symbol # klines_in[1].symbol
    /\ Len(result.ratings) = 3

SnapshotsFor(rs, symbol) ==
    LET IsOf(r) == r.symbol = symbol
    IN  SelectSeq(rs, IsOf)

\* C12: the rating engine has no interaction between symbols: the first
\* update of a symbol is applied to the state (1500, 350, 0.06), each later
\* one to the state its previous candle left, and the snapshots of a symbol
\* in a mixed list are the snapshots calculate_ratings gives for the candles
\* of that symbol alone.
C12_NoCrossSymbolInteraction ==
    pc = "rated" =>
        \A symbol \in Symbols :
            LET mine == SnapshotsFor(result.ratings, symbol)
                alone == calculate_ratings(SnapshotsFor(klines_in, symbol)).ratings
            IN  /\ mine = alone
                /\ \A i \in 1..Len(mine) :
                      /\ mine[i].rating[1] = <<1500, 350, F(6, 100)>>
                      /\ mine[i].rating[2] =
                            Append(IF i = 1 THEN <<>> ELSE mine[i - 1].rating[2],
                                   <<1500, 50, mine[i].performance_score>>)

\* a candle of the other symbol has been rated between two candles of one
C12_Witness ==
    /\ pc = "rated"
    /\ Len(klines) = 3
    /\ klines[1].symbol = TradedSymbol
    /\ klines[2].symbol # TradedSymbol
    /\ klines[3].symbol = TradedSymbol
    /\ klines[1].close # klines[2].close
    /\ Len(SnapshotsFor(result.ratings, TradedSymbol)) = 2

\* C13: find_new_volatility ends for every input: the refinement loop runs at
\* most 50 iterations and stops at the first iteration whose |f| is below
\* 1e-6, returning that secant point, and the bracket search ends too (the
\* steps it takes stay below the number the model follows).
C13_SolveTerminates ==
    <>(/\ solver.pc = "returned"
       /\ solver.iter <= MaxIterations
       /\ solver.k < MaxK
       /\ solver.converged => solver.returned = Some(secant_point(solver.iter))
       /\ ~solver.converged => solver.iter = MaxIterations)

\* the bracket search was made and all 50 iterations have run
C13_Witness ==
    /\ solver.pc = "returned"
    /\ Len(solver.evaluated) >= 1
    /\ solver.iter = MaxIterations
    /\ ~solver.converged

\* C14: when none of the 50 iterations has |f| below 1e-6, the value returned
\* is exp(x/2) for x the 50th secant point.
C14_FallbackIsLastIterate ==
    (solver.pc = "returned" /\ ~solver.converged) =>
        solver.returned = Some(secant_point(MaxIterations))

\* the bounds as the refinement loop starts with them, the bracket search
\* having ended at a value of f for which ends(f) holds
BracketBounds(ends(_)) ==
    (solver.pc = "illinois" /\ solver.iter = 0) =>
        LET sum == fadd(solver.phi_squared, solver.v)
            positive == fgt(fsub(fsub(solver.delta_squared, solver.phi_squared),
                                 solver.v), Zero)
            n == Len(solver.evaluated)
        IN  /\ solver.big_a = [kind |-> "ln", ln |-> solver.sigma_squared,
                               plus |-> Zero, n |-> 0]
            /\ positive =>
                  /\ n = 0
                  /\ solver.big_b = [kind |-> "ln", ln |-> fsub(solver.delta_squared, sum),
                                     plus |-> Zero, n |-> 0]
            /\ ~positive =>
                  /\ n >= 1
                  /\ solver.big_b = [kind |-> "ln", ln |-> solver.sigma_squared,
                                     plus |-> F(-n, 2), n |-> 0]
                  /\ \A j \in 1..n :
                        /\ solver.evaluated[j].x =
                              [kind |-> "ln", ln |-> solver.sigma_squared,
                               plus |-> F(-j, 2), n |-> 0]
                        /\ ends(solver.evaluated[j].f) <=> j = n

IsNegative(fx) == flt(fx, Zero)
IsNotNegative(fx) == ~flt(fx, Zero)

\* C19 as stated: the first bound is a = ln(sigma^2); the second bound is
\* ln(delta^2 - phi^2 - v) when that is positive, otherwise a - k*tau for the
\* first k = 1, 2, ... at which f(a - k*tau) is negative.
C19_Original == BracketBounds(IsNegative)

\* C19, amended: the first bound is a = ln(sigma^2); the second bound is
\* ln(delta^2 - phi^2 - v) when that is positive, otherwise a - k*tau for the
\* first k = 1, 2, ... at which f(a - k*tau) is not negative.
C19_Bracket == BracketBounds(IsNotNegative)

\* the bracket search has ended at a positive value of f
C19_Witness ==
    /\ solver.pc = "illinois"
    /\ solver.iter = 0
    /\ Len(solver.evaluated) = 1
    /\ solver.sigma_squared # Zero
    /\ fgt(solver.evaluated[1].f, Zero)
    /\ solver.big_b = bracket_point(solver.a, 1)

\* C15: a price rise with taker-buy dominance scores 1.0 with High
\* confidence, a price fall with taker-sell dominance 0.0 with High
\* confidence, a near-zero price change 0.5 with Neutral confidence, and any
\* other combination has Low confidence (open 100, close 105 with taker-sell
\* dominance scores 0.75, Low); the score is always within [0, 1].
C15_Classification ==
    (score_call # None /\ hybrid_score # None) =>
        LET open == score_call[1][1]
            close == score_call[1][2]
            buy_dominant == fgt(score_call[1][3], score_call[1][4])
            sell_dominant == fgt(score_call[1][4], score_call[1][3])
            near_zero == flt(fabs(fsub(close, open)), F(1, 1000))
            rise == ~near_zero /\ fgt(close, open)
            fall == ~near_zero /\ flt(close, open)
            hs == hybrid_score[1]
        IN  /\ fle(Zero, hs.score) /\ fle(hs.score, F(1, 1))
            /\ near_zero => (hs.score = F(1, 2) /\ hs.confidence = "Neutral")
            /\ (rise /\ buy_dominant) => (hs.score = F(1, 1) /\ hs.confidence = "High")
            /\ (fall /\ sell_dominant) => (hs.score = F(0, 1) /\ hs.confidence = "High")
            /\ (rise /\ sell_dominant) => hs.confidence = "Low"
            /\ (fall /\ buy_dominant) => hs.confidence = "Low"
            /\ (open = F(100, 1) /\ close = F(105, 1) /\ sell_dominant)
                  => hs.score = F(3, 4)


\* the window k of a config: [s_k, s_k + W], W = months * 30 days and
\* s_k = start_time + k * (W / 2)
WindowLength(cfg) ==
    (IF cfg.window_size = None THEN 12 ELSE cfg.window_size[1]) * MonthLength

WindowStart(cfg, k) == cfg.start_time + k * (WindowLength(cfg) \div 2)

RatingsOfWindow(cfg, rs, k) ==
    LET Indices == {i \in 1..Len(rs) :
                      /\ WindowStart(cfg, k) <= rs[i].timestamp
                      /\ rs[i].timestamp <= WindowStart(cfg, k) + WindowLength(cfg)}
        Kept[i \in 0..Len(rs)] ==
            IF i = 0 THEN <<>>
            ELSE IF i \in Indices THEN Append(Kept[i - 1], rs[i]) ELSE Kept[i - 1]
    IN  Kept[Len(rs)]

\* the results of the windows k, k + 1, ... in ascending k, one for each window
\* that holds a rating
RECURSIVE ResultsFrom(_, _, _)
ResultsFrom(cfg, rs, k) ==
    IF WindowStart(cfg, k) + WindowLength(cfg) <= cfg.end_time
    THEN LET inside == RatingsOfWindow(cfg, rs, k)
             narrowed == [cfg EXCEPT !.start_time = WindowStart(cfg, k),
                                     !.end_time = WindowStart(cfg, k) + WindowLength(cfg)]
         IN  (IF inside = <<>>
              THEN <<>>
              ELSE <<[start_time |-> narrowed.start_time,
                      end_time |-> narrowed.end_time,
                      orders |-> run_backtest(narrowed, inside).orders]>>)
             \o ResultsFrom(cfg, rs, k + 1)
    ELSE <<>>

\* the number of windows k >= 0 with s_k + W <= end_time
RECURSIVE WindowCount(_, _)
WindowCount(cfg, k) ==
    IF WindowStart(cfg, k) + WindowLength(cfg) <= cfg.end_time
    THEN 1 + WindowCount(cfg, k + 1)
    ELSE 0

\* C16: run_windowed_backtest returns, in ascending k, one result for each
\* window [s_k, s_k + W] (W = months * 30 days, s_k = start_time + k * (W/2),
\* s_k + W <= end_time) that holds a rating, both ends inclusive, and none for
\* an empty window; each result is run_backtest on that window's ratings with
\* the config narrowed to the window and a fresh portfolio.
C16_WindowedResults ==
    windowed.pc = "returned" =>
        /\ windowed.returned.ok
        /\ windowed.returned.results = ResultsFrom(config, ratings, 0)

\* a run over several windows, one of them empty, one with a rating on its
\* last instant, one with orders
C16_Witness ==
    /\ windowed.pc = "returned"
    /\ Len(windowed.returned.results) >= 2
    /\ WindowCount(config, 0) > Len(windowed.returned.results)
    /\ \E i \in 1..Len(windowed.returned.results) :
          windowed.returned.results[i].orders # <<>>
    /\ \E i \in 1..Len(windowed.returned.results) :
          \E j \in 1..Len(ratings) :
              ratings[j].timestamp = windowed.returned.results[i].end_time


\* C17: for every config, window_size = 0 and an absent window_size included,
\* run_windowed_backtest eventually returns after a finite number of windows.
C17_WindowedReturns == <>(windowed.pc = "returned")


\* the records are in the order of their times
ChronologicalKlines(ks) ==
    \A i, j \in 1..Len(ks) : i < j => ks[i].open_time <= ks[j].open_time

ChronologicalRatings(rs) ==
    \A i, j \in 1..Len(rs) : i < j => rs[i].timestamp <= rs[j].timestamp

OrdersOf(orders, symbol) ==
    LET IsOf(o) == o.symbol = symbol
    IN  SelectSeq(orders, IsOf)

IsPrefix(s, t) == Len(s) <= Len(t) /\ SubSeq(t, 1, Len(s)) = s

\* C20: the ledger of run_backtest is append-only; the orders of the traded
\* symbol alternate BUY, SELL, BUY, ... starting with a BUY, with
\* non-decreasing timestamps; every SELL carries the quantity of the BUY
\* immediately before it, and the duration computed for it is its timestamp
\* minus that BUY's timestamp (in hours).
C20_Ledger ==
    LET orders == OrdersOf(portfolio.orders, TradedSymbol)
        durations == trade_durations_of(portfolio.orders)
    IN  /\ IsPrefix(last.before.orders, portfolio.orders)
        /\ pc = "done" => result.orders = portfolio.orders
        /\ \A i \in 1..Len(orders) :
              orders[i].side = (IF i % 2 = 1 THEN "BUY" ELSE "SELL")
        /\ \A i \in 1..(Len(orders) - 1) :
              orders[i].timestamp <= orders[i + 1].timestamp
        /\ Len(durations) = Len(orders) \div 2
        /\ \A n \in 1..(Len(orders) \div 2) :
              /\ orders[2 * n].quantity = orders[2 * n - 1].quantity
              /\ durations[n] = F(orders[2 * n].timestamp
                                    - orders[2 * n - 1].timestamp, MsPerHour)

\* a finished run whose ledger holds a trade closed on a later tick than it
\* was opened, with a duration of more than nothing
C20_Witness ==
    /\ pc = "done"
    /\ Len(result.orders) >= 2
    /\ result.orders[2].timestamp > result.orders[1].timestamp
    /\ flt(Zero, trade_durations_of(result.orders)[1])


\* the snapshots of the traded symbol in the order of their times, as both
\* the signals and the prices of run_backtest are taken from them
SortedHistory == sort_by_key(GroupBySymbol(ratings, TradedSymbol))

\* the price synthesized from the snapshot the signal at 0-based index sidx
\* was computed for
PriceOfSignal(sidx) ==
    fmul(F(100, 1),
         fdiv(SortedHistory[sidx + config.moving_averages + 1][2], F(1500, 1)))

\* the ticks that processed the signal at 0-based index sidx
TicksOfSignal(sidx) == {i \in 1..Len(ticks) : ticks[i].sidx = sidx}

\* C21: in run_backtest every signal of the traded symbol is processed in
\* exactly one tick, and the price of that tick is the one synthesized from
\* the snapshot the signal was computed for, also when snapshots share a
\* timestamp.
C21_SignalMeetsItsPrice ==
    /\ pc \in {"loop", "done"} /\ HasSeries =>
          \A i \in 1..Len(ticks) :
              symbol_prices[ticks[i].pidx + 1][2] = PriceOfSignal(ticks[i].sidx)
    /\ pc = "done" /\ HasSeries =>
          \A sidx \in 0..(Len(symbol_signals) - 1) :
              Cardinality(TicksOfSignal(sidx)) = 1


\* both exit percentages of the config are positive
PositivePercents ==
    /\ fgt(config.profit_percent, Zero)
    /\ fgt(config.stop_loss_percent, Zero)

\* the last step was a tick at a positive price whose BUY signal opened a
\* position of the traded symbol
BuyTickOpened ==
    /\ last.kind = "tick"
    /\ last.signal = "BUY"
    /\ fgt(last.price, Zero)
    /\ TradedSymbol \notin DOMAIN last.before.positions
    /\ TradedSymbol \in DOMAIN last.mid.positions

\* the last step was a tick that appended a SELL order of the traded symbol
TickClosed ==
    /\ last.kind = "tick"
    /\ \E i \in (Len(last.before.orders) + 1)..Len(portfolio.orders) :
          /\ portfolio.orders[i].symbol = TradedSymbol
          /\ portfolio.orders[i].side = "SELL"

====
